---- MODULE Spec2Model ----
(***************************************************************************)
(* Model of facebook_api/mixins.py: the like / reaction / share fetch and  *)
(* reconciliation routines and the count aggregation of the mixins.        *)
(*                                                                         *)
(* A fetch is modelled in two steps: the call (the arguments and the       *)
(* remote collection the Graph API will serve to this run are fixed, held  *)
(* in `call`), and the run itself (every page, the return_all callback and *)
(* its save), one action.                                                  *)
(***************************************************************************)
EXTENDS Integers, Sequences, FiniteSets, Bags, TLC

\* ---------------------------------------------------------------- bounds
\* Number of distinct remote users (graph ids 1..MaxUsers).
MaxUsers == 2
\* Longest remote collection (likes, reactions, shared posts) served to a run.
MaxEntries == 2
\* Largest count a nullable count field is given before a run (parse()).
MaxCount == 1

\* None: the value of a null=True field that was never set.
Null == -1

GraphIds == 1 .. MaxUsers

VARIABLES
    users,            \* facebook_users.User table: the graph ids that have a row
    likes_users,      \* LikableModelMixin.likes_users: set of user pks
    likes_count,      \* LikableModelMixin.likes_count
    reaction_users,   \* '<reaction>s_users' for the six reaction_types
    reaction_count,   \* '<reaction>s_count' for the six reaction_types
    reactions_count,  \* ReactionableModelMixin.reactions_count
    shares_users,     \* through rows of shares_users: bag of [user, time_from]
    shares_count,     \* ShareableModelMixin.shares_count
    comments_count,   \* read by ActionableModelMixin.save
    actions_count,    \* ActionableModelMixin.actions_count
    call,             \* the call in progress: its arguments and remote data
    last,             \* the outcome of the call that completed last (reset by the next call)
    proc              \* per-process position and instance fields (concurrent fetch_likes)

vars == << users, likes_users, likes_count, reaction_users, reaction_count,
           reactions_count, shares_users, shares_count, comments_count,
           actions_count, call, last, proc >>

Range(f) == { f[i] : i \in DOMAIN f }

Min(a, b) == IF a <= b THEN a ELSE b

NoCall == [op |-> "none"]

\* ------------------------------------------------------------ User rows
\* The local primary key of the user row of graph id g. Local pks are not
\* the remote ids ("we should use local pk, instead of remote").
PkOf(g) == MaxUsers + g

GraphIdOf(pk) == pk - MaxUsers

\* The Graph API serves ids and times as strings; Str(n) is the string of n.
Str(n) == << "str", n >>

\* int(x) of a string of digits.
int(x) == x[2]

\* dateutil.parser.parse of a time string.
datetime_parse(x) == x[2]

\* Keys of a small resource that describes a user.
UserKeys == {"id", "name"}

\* get_or_create_from_small_resource: the user row for a resource whose keys
\* (the reaction 'type' aside) are id and name; UnknownResourceType otherwise.
get_or_create_from_small_resource(table, resource) ==
    IF resource.keys \ {"type"} = UserKeys
    THEN [ok |-> TRUE, table |-> table \cup {int(resource.id)}, pk |-> PkOf(int(resource.id))]
    ELSE [ok |-> FALSE, table |-> table, pk |-> Null]

\* User.objects.filter(pk__in=ids)
UsersWithPkIn(table, ids) == { PkOf(g) : g \in { h \in table : PkOf(h) \in Range(ids) } }

\* api_call for a paginated collection: the page after cursor `after`, and the
\* cursor of the next page (Null on the last page). A remote that is down
\* answers with an empty (falsy) response.
api_call(remote, limit, after) ==
    IF ~remote.up
    THEN [ok |-> FALSE, data |-> << >>, after |-> Null, first |-> after]
    ELSE [ok |-> TRUE,
          data |-> SubSeq(remote.data, after + 1, Min(after + limit, Len(remote.data))),
          after |-> IF after + limit < Len(remote.data) THEN after + limit ELSE Null,
          first |-> after]

\* The item and the tables a run works on, as one record.
Cur == [users |-> users, likes_users |-> likes_users, likes_count |-> likes_count,
        shares_users |-> shares_users, shares_count |-> shares_count,
        reaction_users |-> reaction_users, reaction_count |-> reaction_count,
        reactions_count |-> reactions_count,
        created_time |-> 0]

\* --------------------------------------------------- ActionableModelMixin
\* `x or 0`
OrZero(x) == IF x = Null THEN 0 ELSE x

\* The loop of save over the reaction counts: `actions_count += count`
\* raises TypeError on a count that is None, leaving the sum made so far.
RECURSIVE save_loop(_, _)
save_loop(sum, counts) ==
    IF counts = << >> THEN [actions_count |-> sum, err |-> "none"]
    ELSE IF Head(counts) = Null THEN [actions_count |-> sum, err |-> "TypeError"]
    ELSE save_loop(sum + Head(counts), Tail(counts))

\* ActionableModelMixin.save on an item with these counts.
save(likes, shares, comments, by_reaction) ==
    save_loop(OrZero(likes) + OrZero(shares) + OrZero(comments),
              [i \in 1 .. 6 |->
                  by_reaction[<< "love", "wow", "haha", "sad", "angry", "thankful" >>[i]]])

\* ------------------------------------------------------ LikableModelMixin
\* update_count_and_get_like_users with the likes_users assignment left
\* out, as update_count_and_get_shares_users has it.
update_likes_count_only(s, instances) ==
    [s EXCEPT !.likes_count = Cardinality(instances)]

update_count_and_get_like_users(s, instances) ==
    [s EXCEPT !.likes_users = instances, !.likes_count = Cardinality(instances)]

\* The loop of fetch_likes over response['data'].
RECURSIVE fetch_likes_loop(_, _, _)
fetch_likes_loop(table, data, ids) ==
    IF data = << >> THEN [table |-> table, ids |-> ids]
    ELSE LET r == get_or_create_from_small_resource(table, Head(data))
         IN  IF r.ok THEN fetch_likes_loop(r.table, Tail(data), Append(ids, r.pk))
             ELSE fetch_likes_loop(r.table, Tail(data), ids)

\* One call of the undecorated fetch_likes: one page.
fetch_likes(s, remote, limit, after) ==
    LET response == api_call(remote, limit, after)
        r == IF response.ok THEN fetch_likes_loop(s.users, response.data, << >>)
             ELSE [table |-> s.users, ids |-> << >>]
    IN  [s |-> [s EXCEPT !.users = r.table],
         instances |-> UsersWithPkIn(r.table, r.ids),
         response |-> response,
         err |-> "none"]

\* ---------------------------------------------------- ShareableModelMixin
\* update_count_and_get_shares_users without the `is None` test.
update_shares_count_always(s, instances) ==
    [s EXCEPT !.shares_count = Cardinality(instances)]

update_count_and_get_shares_users(s, instances) ==
    IF s.shares_count = Null
    THEN [s EXCEPT !.shares_count = Cardinality(instances)]
    ELSE s

\* post.get('from') is truthy
HasFrom(post) == post.from.keys # {}

\* Building `timestamps` raises KeyError on a post whose 'from' has no 'id'
\* or that has no 'created_time'.
TimestampsRaise(posts) ==
    \E i \in DOMAIN posts : "id" \notin posts[i].from.keys \/ "created_time" \notin posts[i].keys

\* dict([(int(post['from']['id']), datetime_parse(post['created_time'])) ...]):
\* the last post of a graph id gives its time.
Timestamps(posts) ==
    LET ids == { int(posts[i].from.id) : i \in DOMAIN posts }
        LastOf(g) == CHOOSE i \in DOMAIN posts :
                         /\ int(posts[i].from.id) = g
                         /\ \A j \in DOMAIN posts : int(posts[j].from.id) = g => j <= i
    IN  [g \in ids |-> datetime_parse(posts[LastOf(g)].created_time)]

\* ids_current with the local pks left unconverted.
ids_current_as_pks(s) ==
    { r.user : r \in { x \in DOMAIN s.shares_users : x.time_from # Null } }

\* The graph ids of the users of the item's through rows that have a time_from.
ids_current(s) ==
    { GraphIdOf(r.user) : r \in { x \in DOMAIN s.shares_users : x.time_from # Null } }

\* The loop of fetch_shares over posts: ids and ids_add_pairs.
RECURSIVE fetch_shares_loop(_, _, _, _, _)
fetch_shares_loop(table, posts, ids_add, ids, ids_add_pairs) ==
    IF posts = << >> THEN [table |-> table, ids |-> ids, ids_add_pairs |-> ids_add_pairs]
    ELSE LET post == Head(posts)
             graph_id == int(post.from.id)
         IN  IF post.from.keys = {"id", "name"}
             THEN LET r == get_or_create_from_small_resource(table, post.from)
                  IN  IF ~r.ok THEN fetch_shares_loop(r.table, Tail(posts), ids_add, ids, ids_add_pairs)
                      ELSE fetch_shares_loop(r.table, Tail(posts), ids_add, Append(ids, r.pk),
                               IF graph_id \in ids_add
                                  /\ graph_id \notin { ids_add_pairs[i][1] : i \in DOMAIN ids_add_pairs }
                               THEN Append(ids_add_pairs, << graph_id, r.pk >>)
                               ELSE ids_add_pairs)
             ELSE fetch_shares_loop(table, Tail(posts), ids_add, ids, ids_add_pairs)

\* queryset.filter(...).delete() on the item's through rows
DeleteRows(bag, gone) == [r \in DOMAIN bag \ gone |-> bag[r]]

\* m2m_model.objects.bulk_create(rows)
RECURSIVE bulk_create(_, _)
bulk_create(bag, rows) ==
    IF rows = << >> THEN bag
    ELSE bulk_create(bag (+) SetToBag({Head(rows)}), Tail(rows))

\* One call of the undecorated fetch_shares: one page.
fetch_shares(s, remote, limit, after) ==
    LET response == api_call(remote, limit, after)
        none == [s |-> s, instances |-> {}, response |-> response, err |-> "none",
                 added |-> {}, stamps |-> {}]
    IN  IF ~response.ok THEN none
        ELSE LET posts == SelectSeq(response.data, HasFrom)
             IN  IF TimestampsRaise(posts) THEN [none EXCEPT !.err = "KeyError"]
                 ELSE
                 LET timestamps == Timestamps(posts)
                     ids_new == DOMAIN timestamps
                     ids_add == ids_new \ ids_current(s)
                     ids_remove == ids_current(s) \ ids_new
                     l == fetch_shares_loop(s.users, posts, ids_add, << >>, << >>)
                     pairs == l.ids_add_pairs
                     added == { pairs[i][2] : i \in DOMAIN pairs }
                     old == DeleteRows(s.shares_users,
                                       { r \in DOMAIN s.shares_users : r.time_from = Null })
                     kept == DeleteRows(old, { r \in DOMAIN old : r.user \in added })
                     get_share_date(id) == IF id \in DOMAIN timestamps THEN timestamps[id]
                                           ELSE s.created_time
                     rows == [i \in DOMAIN pairs |->
                                 [user |-> pairs[i][2], time_from |-> get_share_date(pairs[i][1])]]
                 IN  [s |-> [s EXCEPT !.users = l.table,
                                       !.shares_users = bulk_create(kept, rows)],
                      instances |-> UsersWithPkIn(l.table, l.ids),
                      response |-> response,
                      err |-> "none",
                      added |-> added,
                      stamps |-> { << g, timestamps[g] >> : g \in ids_new }]

\* ------------------------------------------------- ReactionableModelMixin
\* reaction_types: without "Like".
reaction_types == << "love", "wow", "haha", "sad", "angry", "thankful" >>

\* str.upper / str.lower on the names this code handles.
upper(x) ==
    CASE x \in {"love", "LOVE"} -> "LOVE"
      [] x \in {"wow", "WOW"} -> "WOW"
      [] x \in {"haha", "HAHA"} -> "HAHA"
      [] x \in {"sad", "SAD"} -> "SAD"
      [] x \in {"angry", "ANGRY"} -> "ANGRY"
      [] x \in {"thankful", "THANKFUL"} -> "THANKFUL"
      [] x \in {"like", "LIKE"} -> "LIKE"
      [] OTHER -> x

lower(x) ==
    CASE x \in {"love", "LOVE"} -> "love"
      [] x \in {"wow", "WOW"} -> "wow"
      [] x \in {"haha", "HAHA"} -> "haha"
      [] x \in {"sad", "SAD"} -> "sad"
      [] x \in {"angry", "ANGRY"} -> "angry"
      [] x \in {"thankful", "THANKFUL"} -> "thankful"
      [] x \in {"like", "LIKE"} -> "like"
      [] OTHER -> x

\* types = self.reaction_types + ['LIKE']
types == reaction_types \o << "LIKE" >>

\* The argument reaction=None.
None == "None"

\* update_count_and_get_<reaction>_users that also resets the other types.
update_reaction_and_reset_others(s, reaction, instances) ==
    [s EXCEPT !.reaction_users = [t \in DOMAIN @ |-> IF t = reaction THEN instances ELSE {}],
              !.reaction_count = [t \in DOMAIN @ |-> IF t = reaction THEN Cardinality(instances) ELSE 0]]

\* update_count_and_get_users_builder(reaction)
update_count_and_get_reaction_users(s, reaction, instances) ==
    [s EXCEPT !.reaction_users[reaction] = instances,
              !.reaction_count[reaction] = Cardinality(instances)]

\* getattr(self, 'update_count_and_get_{0}_users'.format(name)): the method of
\* LikableModelMixin for 'like', the built one for a reaction type.
count_method(s, name, instances) ==
    IF name = "like" THEN update_count_and_get_like_users(s, instances)
    ELSE update_count_and_get_reaction_users(s, name, instances)

\* The loop of fetch_reactions over response['data'].
RECURSIVE fetch_reactions_loop(_, _, _, _)
fetch_reactions_loop(table, data, reaction, ids) ==
    IF data = << >> THEN [table |-> table, ids |-> ids]
    ELSE LET resource == Head(data)
             rest == Tail(data)
         IN  IF reaction # None /\ "type" \notin resource.keys
             THEN fetch_reactions_loop(table, rest, reaction, ids)       \* KeyError
             ELSE IF reaction # None /\ upper(reaction) # resource.type
             THEN fetch_reactions_loop(table, rest, reaction, ids)
             ELSE LET r == get_or_create_from_small_resource(table, resource)
                  IN  IF ~r.ok
                      THEN fetch_reactions_loop(r.table, rest, reaction, ids)   \* UnknownResourceType
                      ELSE IF "type" \notin resource.keys \/ resource.type \notin DOMAIN ids
                      THEN fetch_reactions_loop(r.table, rest, reaction, ids)   \* KeyError
                      ELSE fetch_reactions_loop(r.table, rest, reaction,
                               [ids EXCEPT ![resource.type] = Append(@, r.pk)])

\* fetch_all(return_all=count_method)(get_user_ids) called on the ids of one
\* type: the users with these pks.
get_user_ids(table, ids) == UsersWithPkIn(table, ids)

\* The second loop of fetch_reactions: per type, the users and the count method.
RECURSIVE fetch_reactions_store(_, _, _, _, _)
fetch_reactions_store(s, todo, reaction, ids, result) ==
    IF todo = << >> THEN [s |-> s, result |-> result]
    ELSE LET id_type == Head(todo)
         IN  IF reaction # None /\ upper(reaction) # upper(id_type)
             THEN fetch_reactions_store(s, Tail(todo), reaction, ids, result)
             ELSE LET found == get_user_ids(s.users, ids[upper(id_type)])
                  IN  fetch_reactions_store(count_method(s, lower(id_type), found), Tail(todo),
                          reaction, ids, [t \in DOMAIN result \cup {upper(id_type)} |->
                                             IF t = upper(id_type) THEN found ELSE result[t]])

fetch_reactions(s, reaction, remote, limit) ==
    LET ids0 == [t \in { upper(types[i]) : i \in DOMAIN types } |-> << >>]
        response == api_call(remote, limit, 0)
        l == IF response.ok THEN fetch_reactions_loop(s.users, response.data, reaction, ids0)
             ELSE [table |-> s.users, ids |-> ids0]
        st == fetch_reactions_store([s EXCEPT !.users = l.table], types, reaction, l.ids,
                                    [t \in {} |-> {}])
    IN  [s |-> st.s,
         ret |-> IF reaction # None THEN st.result[upper(reaction)] ELSE st.result]

\* count_reactions: TypeError when a count is None.
count_reactions(s) ==
    LET counts == [i \in DOMAIN reaction_types |-> s.reaction_count[reaction_types[i]]]
                  \o << s.likes_count >>
        Sum[i \in 0 .. Len(counts)] == IF i = 0 THEN 0 ELSE Sum[i - 1] + counts[i]
    IN  IF \E i \in DOMAIN counts : counts[i] = Null
        THEN [s |-> s, err |-> "TypeError"]
        ELSE [s |-> [s EXCEPT !.reactions_count = Sum[Len(counts)]], err |-> "none"]

\* ------------------------------------------------------------ decorators
\* The return_all callback of a fetch_all-decorated method.
return_all(method, s, instances) ==
    IF method = "fetch_likes" THEN update_count_and_get_like_users(s, instances)
    ELSE update_count_and_get_shares_users(s, instances)

\* fetch_all: call the method page by page, following the 'after' cursor of
\* each response until a response has no next page, joining the instances of
\* the pages; then hand them to the return_all callback.
RECURSIVE fetch_all(_, _, _, _, _, _)
fetch_all(method, s, remote, limit, after, acc) ==
    LET r == IF method = "fetch_likes" THEN fetch_likes(s, remote, limit, after)
             ELSE fetch_shares(s, remote, limit, after)
        all == [instances |-> acc.instances \cup r.instances,
                added |-> acc.added \cup (IF method = "fetch_likes" THEN {} ELSE r.added),
                stamps |-> acc.stamps \cup (IF method = "fetch_likes" THEN {} ELSE r.stamps),
                pages |-> acc.pages + 1]
    IN  IF r.err # "none"
        THEN [s |-> r.s, ret |-> {}, err |-> r.err, added |-> {}, stamps |-> {},
              pages |-> all.pages]
        ELSE IF r.response.after # Null
        THEN fetch_all(method, r.s, remote, limit, r.response.after, all)
        ELSE [s |-> return_all(method, r.s, all.instances), ret |-> all.instances,
              err |-> "none", added |-> all.added, stamps |-> all.stamps,
              pages |-> all.pages]

NoPages == [instances |-> {}, added |-> {}, stamps |-> {}, pages |-> 0]

\* atomic: an exception rolls back every write of the run.
atomic(s, result) == IF result.err # "none" THEN [result EXCEPT !.s = s] ELSE result

\* --------------------------------------------------------------- inputs
\* Collections of at most MaxEntries entries drawn from E.
Collections(E) == UNION { [1 .. n -> E] : n \in 0 .. MaxEntries }

\* Page sizes (the `limit` of a call, or the server's page size): one entry a
\* page, or the whole collection in one page.
Limits == {1, MaxEntries}

\* Entries of /likes: user resources and resources of an unknown type.
LikeEntries == { [id |-> Str(g), keys |-> k] : g \in GraphIds, k \in {UserKeys, {"id"}} }

\* The 'from' of a shared post: absent, a user, one with a further key, one
\* without id.
NoFrom == [id |-> Str(1), keys |-> {}]

PostShapes ==
    { [from |-> [id |-> Str(g), keys |-> UserKeys], timed |-> TRUE] : g \in GraphIds }
    \cup { [from |-> NoFrom, timed |-> TRUE],
           [from |-> [id |-> Str(1), keys |-> {"category", "id", "name"}], timed |-> TRUE],
           [from |-> [id |-> Str(1), keys |-> {"name"}], timed |-> TRUE],
           [from |-> [id |-> Str(1), keys |-> UserKeys], timed |-> FALSE] }

\* /sharedposts lists the posts in the order of their creation: the i-th post
\* has created_time i, unless it has no such key.
PostsOf(shapes) ==
    [i \in DOMAIN shapes |->
        [from |-> shapes[i].from,
         created_time |-> Str(i),
         keys |-> IF shapes[i].timed THEN {"from", "created_time"} ELSE {"from"}]]

Down == [up |-> FALSE, data |-> << >>]

\* ---------------------------------------------------------- fetch_likes
LikesUnchanged == UNCHANGED << likes_users, likes_count >>
ReactionsUnchanged == UNCHANGED << reaction_users, reaction_count, reactions_count >>
SharesUnchanged == UNCHANGED << shares_users, shares_count >>
ActionsUnchanged == UNCHANGED << comments_count, actions_count >>

CallFetchLikes ==
    /\ call.op = "none"
    /\ \E remote \in {Down} \cup { [up |-> TRUE, data |-> d] : d \in Collections(LikeEntries) },
          limit \in Limits :
          call' = [op |-> "fetch_likes", remote |-> remote, limit |-> limit]
    /\ last' = NoCall
    /\ UNCHANGED << users, proc >>
    /\ LikesUnchanged /\ ReactionsUnchanged /\ SharesUnchanged /\ ActionsUnchanged

RunFetchLikes ==
    /\ call.op = "fetch_likes"
    /\ \E r \in {fetch_all("fetch_likes", Cur, call.remote, call.limit, 0, NoPages)} :
           /\ users' = r.s.users
           /\ likes_users' = r.s.likes_users
           /\ likes_count' = r.s.likes_count
           /\ last' = [op |-> "fetch_likes", err |-> r.err, ret |-> r.ret, pages |-> r.pages]
    /\ call' = NoCall
    /\ UNCHANGED proc
    /\ ReactionsUnchanged /\ SharesUnchanged /\ ActionsUnchanged

\* --------------------------------------------------------- fetch_shares
CallFetchShares ==
    /\ call.op = "none"
    /\ \E remote \in {Down} \cup { [up |-> TRUE, data |-> PostsOf(d)] : d \in Collections(PostShapes) },
          limit \in Limits :
          call' = [op |-> "fetch_shares", remote |-> remote, limit |-> limit]
    /\ last' = NoCall
    /\ UNCHANGED << users, proc >>
    /\ LikesUnchanged /\ ReactionsUnchanged /\ SharesUnchanged /\ ActionsUnchanged

RunFetchShares ==
    /\ call.op = "fetch_shares"
    /\ \E r \in {atomic(Cur, fetch_all("fetch_shares", Cur, call.remote, call.limit, 0, NoPages))} :
           /\ users' = r.s.users
           /\ shares_users' = r.s.shares_users
           /\ shares_count' = r.s.shares_count
           /\ last' = [op |-> "fetch_shares", err |-> r.err,
                       relisted |-> r.ret \ r.added,
                       stamps |-> { st \in r.stamps : PkOf(st[1]) \in r.ret \ r.added },
                       counted |-> (r.err = "none" /\ shares_count = Null)]
    /\ call' = NoCall
    /\ UNCHANGED proc
    /\ LikesUnchanged /\ ReactionsUnchanged /\ ActionsUnchanged

\* ------------------------------------------------------ fetch_reactions
\* The reaction types the remote entries and the `reaction` argument are
\* drawn from: the first of reaction_types, and LIKE, which is stored by the
\* method of LikableModelMixin.
ResponseTypes == {"LOVE", "LIKE"}

\* Entries of /reactions: a user with a type, and three bad ones: no 'type',
\* a type that is none of the seven, a resource of an unknown type.
ReactionEntries ==
    { [id |-> Str(g), keys |-> {"id", "name", "type"}, type |-> ty] :
          g \in GraphIds, ty \in ResponseTypes }
    \cup { [id |-> Str(1), keys |-> {"id", "name"}, type |-> "LOVE"],
           [id |-> Str(1), keys |-> {"id", "name", "type"}, type |-> "PRIDE"],
           [id |-> Str(1), keys |-> {"id", "type"}, type |-> "LOVE"] }

ReactionArgs == {None} \cup { lower(ty) : ty \in ResponseTypes }

CallFetchReactions ==
    /\ call.op = "none"
    /\ \E remote \in {Down} \cup { [up |-> TRUE, data |-> d] : d \in Collections(ReactionEntries) },
          reaction \in ReactionArgs :
          call' = [op |-> "fetch_reactions", remote |-> remote, reaction |-> reaction]
    /\ last' = NoCall
    /\ UNCHANGED << users, proc >>
    /\ LikesUnchanged /\ ReactionsUnchanged /\ SharesUnchanged /\ ActionsUnchanged

RunFetchReactions ==
    /\ call.op = "fetch_reactions"
    /\ \E r \in {fetch_reactions(Cur, call.reaction, call.remote, MaxEntries)} :
           /\ users' = r.s.users
           /\ likes_users' = r.s.likes_users
           /\ likes_count' = r.s.likes_count
           /\ reaction_users' = r.s.reaction_users
           /\ reaction_count' = r.s.reaction_count
           /\ last' = [op |-> "fetch_reactions", err |-> "none", reaction |-> call.reaction,
                       ret |-> r.ret]
    /\ call' = NoCall
    /\ UNCHANGED << reactions_count, proc >>
    /\ SharesUnchanged /\ ActionsUnchanged

CountReactions ==
    /\ call.op = "none"
    /\ \E r \in {count_reactions(Cur)} :
           /\ reactions_count' = r.s.reactions_count
           /\ last' = [op |-> "count_reactions", err |-> r.err]
    /\ UNCHANGED << users, call, proc, reaction_users, reaction_count >>
    /\ LikesUnchanged /\ SharesUnchanged /\ ActionsUnchanged

\* ----------------------------------------------------------------- save
Save ==
    /\ last.op = "none"
    /\ \E r \in {save(likes_count, shares_count, comments_count, reaction_count)} :
           /\ actions_count' = r.actions_count
           /\ last' = [op |-> "save", err |-> r.err]
    /\ UNCHANGED << users, call, proc, comments_count >>
    /\ LikesUnchanged /\ ReactionsUnchanged /\ SharesUnchanged

\* ------------------------------------------- fetch_likes, two processes
\* The processes that fetch the likes of the same item, without @atomic.
Procs == {"a", "b"}

\* A process gets every page and the users of the entries.
PFetch(p) ==
    /\ proc[p].pc = "start"
    /\ \E remote \in {Down} \cup { [up |-> TRUE, data |-> d] : d \in Collections(LikeEntries) },
          limit \in Limits :
          \E r \in {fetch_all("fetch_likes", Cur, remote, limit, 0, NoPages)} :
              /\ users' = r.s.users
              /\ proc' = [proc EXCEPT ![p] = [pc |-> "fetched", instances |-> r.ret,
                                               likes_count |-> likes_count]]
    /\ UNCHANGED << call, last >>
    /\ LikesUnchanged /\ ReactionsUnchanged /\ SharesUnchanged /\ ActionsUnchanged

\* self.likes_users = instances: writes the rows of the relation
PSetUsers(p) ==
    /\ proc[p].pc = "fetched"
    /\ likes_users' = proc[p].instances
    /\ proc' = [proc EXCEPT ![p].pc = "users_set"]
    /\ UNCHANGED << users, likes_count, call, last >>
    /\ ReactionsUnchanged /\ SharesUnchanged /\ ActionsUnchanged

\* self.likes_count = instances.count(): the attribute of this process's instance
PSetCount(p) ==
    /\ proc[p].pc = "users_set"
    /\ proc' = [proc EXCEPT ![p].pc = "count_set",
                             ![p].likes_count = Cardinality(proc[p].instances)]
    /\ UNCHANGED << users, call, last >>
    /\ LikesUnchanged /\ ReactionsUnchanged /\ SharesUnchanged /\ ActionsUnchanged

\* self.save(): writes the instance's likes_count to the item's row
PSave(p) ==
    /\ proc[p].pc = "count_set"
    /\ likes_count' = proc[p].likes_count
    /\ proc' = [proc EXCEPT ![p].pc = "done"]
    /\ UNCHANGED << users, likes_users, call, last >>
    /\ ReactionsUnchanged /\ SharesUnchanged /\ ActionsUnchanged

\* ------------------------------------------------------- specifications
NoReactions == [t \in Range(reaction_types) |-> {}]

NoReactionCounts == [t \in Range(reaction_types) |-> Null]

Idle == /\ call = NoCall
        /\ last = NoCall
        /\ proc = << >>

\* A new item that has no likes yet.
LikesInit ==
    /\ Idle
    /\ users = {} /\ likes_users = {} /\ likes_count = Null
    /\ reaction_users = NoReactions /\ reaction_count = NoReactionCounts /\ reactions_count = Null
    /\ shares_users = EmptyBag /\ shares_count = Null
    /\ comments_count = Null /\ actions_count = Null

LikesNext == CallFetchLikes \/ RunFetchLikes

SpecLikes == LikesInit /\ [][LikesNext]_vars

\* An item whose shares_count was or was not parsed from the post, and that
\* may have share rows written before the rows had a time_from.
Init ==
    /\ Idle
    /\ \E old \in SUBSET GraphIds :
          /\ users = old
          /\ shares_users = SetToBag({ [user |-> PkOf(g), time_from |-> Null] : g \in old })
    /\ shares_count \in {Null, MaxCount}
    /\ likes_users = {} /\ likes_count = Null
    /\ reaction_users = NoReactions /\ reaction_count = NoReactionCounts /\ reactions_count = Null
    /\ comments_count = Null /\ actions_count = Null

\* A new item that has no reactions and no likes yet.
ReactionsInit == LikesInit

ReactionsNext == CallFetchReactions \/ RunFetchReactions

SpecReactions == ReactionsInit /\ [][ReactionsNext]_vars

CountNext == CallFetchReactions \/ RunFetchReactions \/ CountReactions

SpecCount == ReactionsInit /\ [][CountNext]_vars

\* An item about to be saved: each count is null or a number.
ActionsInit ==
    /\ Idle
    /\ users = {} /\ likes_users = {} /\ reaction_users = NoReactions
    /\ shares_users = EmptyBag
    /\ likes_count \in {Null} \cup (0 .. MaxCount)
    /\ shares_count \in {Null} \cup (0 .. MaxCount)
    /\ comments_count \in {Null} \cup (0 .. MaxCount)
    /\ reaction_count \in [Range(reaction_types) -> {Null} \cup (0 .. MaxCount)]
    /\ reactions_count = Null /\ actions_count = Null

ActionsNext == Save

SpecActions == ActionsInit /\ [][ActionsNext]_vars

\* Two processes about to fetch the likes of a new item.
ConcInit ==
    /\ call = NoCall /\ last = NoCall
    /\ proc = [p \in Procs |-> [pc |-> "start", instances |-> {}, likes_count |-> Null]]
    /\ users = {} /\ likes_users = {} /\ likes_count = Null
    /\ reaction_users = NoReactions /\ reaction_count = NoReactionCounts /\ reactions_count = Null
    /\ shares_users = EmptyBag /\ shares_count = Null
    /\ comments_count = Null /\ actions_count = Null

ConcNext == \E p \in Procs : PFetch(p) \/ PSetUsers(p) \/ PSetCount(p) \/ PSave(p)

SpecConc == ConcInit /\ [][ConcNext]_vars

Next == CallFetchShares \/ RunFetchShares

Spec == Init /\ [][Next]_vars

\* =============================================================== claims
\* Steps that complete a call.
LikesRun == call.op = "fetch_likes" /\ last'.op = "fetch_likes"
ReactionsRun == call.op = "fetch_reactions" /\ last'.op = "fetch_reactions"
SharesRun == call.op = "fetch_shares" /\ last'.op = "fetch_shares"

\* The pks of the users that the user entries of a likes collection name.
ExpectedLikers(data) ==
    { PkOf(g) : g \in { h \in GraphIds :
        \E i \in DOMAIN data : data[i].keys = {"id", "name"} /\ data[i].id = Str(h) } }

\* C1: after a fetch_likes run over every page of the remote likes
\* collection, likes_users is exactly the set of the users its entries
\* resolve to, and likes_count is the size of likes_users.
C1_LikesMirrorRemote ==
    [][LikesRun =>
          /\ likes_users' = ExpectedLikers(call.remote.data)
          /\ likes_count' = Cardinality(likes_users')]_vars

\* C1 witness: a run over two pages left two users and the count 2.
C1_Witness ==
    /\ last.op = "fetch_likes" /\ last.pages = 2
    /\ Cardinality(likes_users) = 2 /\ likes_count = 2

\* The users with a share row that has a time_from.
ActiveSharers(bag) == { r.user : r \in { x \in DOMAIN bag : x.time_from # Null } }

\* The share rows of a user.
RowsOf(bag, pk) == { r \in DOMAIN bag : r.user = pk }

\* The graph ids that author a post of a sharedposts collection.
AuthorIds(data) ==
    { g \in GraphIds : \E i \in DOMAIN data :
        "id" \in data[i].from.keys /\ data[i].from.id = Str(g) }

\* The graph ids that author a post whose 'from' has exactly id and name.
UserAuthorIds(data) ==
    { g \in GraphIds : \E i \in DOMAIN data :
        data[i].from.keys = {"id", "name"} /\ data[i].from.id = Str(g) }

\* C2: a user with an active share row who authors no post of the response
\* is no active sharer after a completed fetch_shares run.
C2_RemovalsApplied ==
    [][(SharesRun /\ call.remote.up /\ last'.err = "none") =>
          \A pk \in ActiveSharers(shares_users) :
              GraphIdOf(pk) \notin AuthorIds(call.remote.data)
                  => pk \notin ActiveSharers(shares_users')]_vars

\* C3 as stated: after every completed fetch_shares run shares_count is the
\* number of share rows of the item.
C3_CountIsNumberOfRows ==
    (last.op = "fetch_shares" /\ last.err = "none")
        => shares_count = BagCardinality(shares_users)

\* C3 amended: a completed fetch_shares run leaves a shares_count that was
\* not null as it was, and sets one that was null to the number of distinct
\* users the posts of the response resolve to.
C3_CountSetOnlyWhenNull ==
    [][(SharesRun /\ last'.err = "none") =>
          shares_count' = IF shares_count = Null
                          THEN Cardinality(UserAuthorIds(call.remote.data))
                          ELSE shares_count]_vars

\* C3 witness: a completed run kept the earlier count, which is not the
\* number of share rows.
C3_Witness ==
    /\ last.op = "fetch_shares" /\ last.err = "none" /\ ~last.counted
    /\ shares_count # Null
    /\ shares_count # BagCardinality(shares_users)

\* A post that is well formed: 'from' has exactly id and name, and there is
\* a created_time.
WellFormedPost(post) == post.from.keys = {"id", "name"} /\ "created_time" \in post.keys

\* C4: a fetch_shares run does not fail on malformed posts, and leaves what
\* a run on the response without them leaves.
C4_MalformedSkipped ==
    [][SharesRun =>
          LET clean == [call.remote EXCEPT !.data = SelectSeq(@, WellFormedPost)]
              r == atomic(Cur, fetch_all("fetch_shares", Cur, clean, call.limit, 0, NoPages))
          IN  /\ last'.err = "none"
              /\ shares_users' = r.s.shares_users
              /\ shares_count' = r.s.shares_count
              /\ users' = r.s.users]_vars

\* C5: a share row with a time_from whose user is an author in the response
\* is, after the run, still the one row of that user, with its time_from.
C5_WindowPreserved ==
    [][SharesRun =>
          \A r \in DOMAIN shares_users :
              (r.time_from # Null /\ GraphIdOf(r.user) \in AuthorIds(call.remote.data))
                  => /\ r \in DOMAIN shares_users'
                     /\ shares_users'[r] = shares_users[r]
                     /\ RowsOf(shares_users', r.user) = {r}]_vars

\* C5 witness: a completed run whose response listed, with a later
\* created_time, a user who still has the share row and time_from of an
\* earlier run.
C5_Witness ==
    /\ last.op = "fetch_shares" /\ last.err = "none"
    /\ \E r \in DOMAIN shares_users :
          /\ r.time_from # Null /\ r.user \in last.relisted
          /\ \E st \in last.stamps : st[1] = GraphIdOf(r.user) /\ st[2] > r.time_from
          /\ \A st \in last.stamps : st[1] = GraphIdOf(r.user) => st[2] # r.time_from

\* The sum of the counts of the six reaction types, None taken as 0.
SumReactionCounts(c) ==
    OrZero(c["love"]) + OrZero(c["wow"]) + OrZero(c["haha"])
        + OrZero(c["sad"]) + OrZero(c["angry"]) + OrZero(c["thankful"])

\* C6: save never fails and sets actions_count to the sum of the nine
\* counts, a null count taken as 0.
C6_SaveSumsAllCounts ==
    last.op = "save" =>
        /\ last.err = "none"
        /\ actions_count = OrZero(likes_count) + OrZero(shares_count) + OrZero(comments_count)
                               + SumReactionCounts(reaction_count)

AllTypes == {"LOVE", "WOW", "HAHA", "SAD", "ANGRY", "THANKFUL", "LIKE"}

\* The pks of the users of the response entries of a type.
TypedUsers(data, ty) ==
    { PkOf(g) : g \in { h \in GraphIds : \E i \in DOMAIN data :
        /\ data[i].keys = {"id", "name", "type"}
        /\ data[i].type = ty /\ data[i].id = Str(h) } }

\* The stored users and count of a type.
StoredUsers(reactions, likes, ty) == IF ty = "LIKE" THEN likes ELSE reactions[lower(ty)]
StoredCount(reactions, likes, ty) == IF ty = "LIKE" THEN likes ELSE reactions[lower(ty)]

\* A type is stored as the users of its entries in the call's response.
StoredFromResponse(ty) ==
    /\ StoredUsers(reaction_users', likes_users', ty) = TypedUsers(call.remote.data, ty)
    /\ StoredCount(reaction_count', likes_count', ty)
           = Cardinality(TypedUsers(call.remote.data, ty))

\* C7: fetch_reactions without a reaction returns the users of each of the
\* seven types and stores each type's users and count; with a reaction it
\* returns and stores that type alone and leaves the other six as they were.
C7_ReactionsPartitioned ==
    [][ReactionsRun =>
          IF call.reaction = None
          THEN /\ DOMAIN last'.ret = AllTypes
               /\ \A ty \in AllTypes :
                      /\ last'.ret[ty] = TypedUsers(call.remote.data, ty)
                      /\ StoredFromResponse(ty)
          ELSE /\ last'.ret = TypedUsers(call.remote.data, upper(call.reaction))
               /\ StoredFromResponse(upper(call.reaction))
               /\ \A ty \in AllTypes \ {upper(call.reaction)} :
                      /\ StoredUsers(reaction_users', likes_users', ty)
                             = StoredUsers(reaction_users, likes_users, ty)
                      /\ StoredCount(reaction_count', likes_count', ty)
                             = StoredCount(reaction_count, likes_count, ty)]_vars

\* C7 witness: fetch_reactions('love') returned users while the likes of an
\* earlier fetch, other users, are still stored.
C7_Witness ==
    /\ last.op = "fetch_reactions" /\ last.reaction = "love"
    /\ last.ret # {} /\ reaction_users["love"] = last.ret
    /\ likes_users # {} /\ likes_users # last.ret /\ likes_count = Cardinality(likes_users)

\* C8: a user who authors a post with 'from' of exactly id and name, and is
\* no active sharer, has after one fetch_shares run exactly one share row,
\* with the created_time of one of that user's posts in the response.
C8_NewSharerStamped ==
    [][(SharesRun /\ call.remote.up) =>
          \A g \in UserAuthorIds(call.remote.data) :
              PkOf(g) \notin ActiveSharers(shares_users) =>
                  /\ Cardinality(RowsOf(shares_users', PkOf(g))) = 1
                  /\ \A r \in RowsOf(shares_users', PkOf(g)) :
                         /\ shares_users'[r] = 1
                         /\ \E i \in DOMAIN call.remote.data :
                                /\ call.remote.data[i].from.id = Str(g)
                                /\ "created_time" \in call.remote.data[i].keys
                                /\ r.time_from = i]_vars

\* C8 holds of the runs that complete: only the
\* KeyError of fetch_shares breaks it.
C8_WhenRunCompletes ==
    [][(SharesRun /\ call.remote.up /\ last'.err = "none") =>
          \A g \in UserAuthorIds(call.remote.data) :
              PkOf(g) \notin ActiveSharers(shares_users) =>
                  /\ Cardinality(RowsOf(shares_users', PkOf(g))) = 1
                  /\ \A r \in RowsOf(shares_users', PkOf(g)) :
                         /\ shares_users'[r] = 1
                         /\ \E i \in DOMAIN call.remote.data :
                                /\ call.remote.data[i].from.id = Str(g)
                                /\ r.time_from = i]_vars

\* C9: count_reactions, called after some of the types were fetched, does
\* not fail and sets reactions_count to the sum of likes_count and the six
\* reaction counts.
C9_CountReactionsSums ==
    [][(call.op = "none" /\ last'.op = "count_reactions"
            /\ (likes_count # Null \/ reaction_count # NoReactionCounts)) =>
          /\ last'.err = "none"
          /\ reactions_count' = OrZero(likes_count) + SumReactionCounts(reaction_count)]_vars

\* C9, second half, holds: when every type has
\* been fetched, reactions_count is the number of users stored over the
\* seven types.
C9_AfterEveryTypeFetched ==
    (last.op = "count_reactions" /\ last.err = "none") =>
        reactions_count = Cardinality(likes_users)
            + Cardinality(reaction_users["love"]) + Cardinality(reaction_users["wow"])
            + Cardinality(reaction_users["haha"]) + Cardinality(reaction_users["sad"])
            + Cardinality(reaction_users["angry"]) + Cardinality(reaction_users["thankful"])

\* C10: once both interleaved fetch_likes runs are done, likes_count is the
\* number of users in likes_users.
C10_CountMatchesUsersAfterBoth ==
    (\A p \in Procs : proc[p].pc = "done") => likes_count = Cardinality(likes_users)

====
